---- MODULE Spec2Model ----
(***************************************************************************)
(* Model of the AadiFinance lead-ingest service (src/main.py): the Lead    *)
(* schema and its validators, the submit_lead handler and the worksheet    *)
(* it appends to.                                                          *)
(*                                                                         *)
(* Strings are sequences of one-character tokens, so that length, digit    *)
(* and upper-casing checks are computed and not assumed.  Two tokens stand *)
(* for non-ASCII characters: "U+0663" (ARABIC-INDIC DIGIT THREE, category  *)
(* Nd) and "U+00B2" (SUPERSCRIPT TWO, a digit that is not a decimal).      *)
(***************************************************************************)
EXTENDS Integers, Sequences, FiniteSets, TLC

VARIABLES pc, request, body, x_api_key, row, resp, calls,
          sheet, writer, clock,
          vPc, vPayload, vOut

vars == <<pc, request, body, x_api_key, row, resp, calls,
          sheet, writer, clock, vPc, vPayload, vOut>>

handlerVars == <<pc, request, body, x_api_key, row, resp, calls,
                 sheet, writer, clock>>

validatorVars == <<vPc, vPayload, vOut>>

(***************************************************************************)
(* Bounds of the model.                                                    *)
(***************************************************************************)
MaxRequests == 2

MaxClock == 1

(***************************************************************************)
(* JSON / Python values: a string, an integer or None.                     *)
(***************************************************************************)
Str(s) == [t |-> "str", s |-> s, n |-> 0]

Int_(n) == [t |-> "int", s |-> <<>>, n |-> n]

None == [t |-> "none", s |-> <<>>, n |-> 0]

\* Python truthiness of a value (`if v:`)
Truthy(v) ==
    CASE v.t = "str" -> v.s # <<>>
      [] v.t = "int" -> v.n # 0
      [] OTHER -> FALSE

(***************************************************************************)
(* Characters.                                                             *)
(***************************************************************************)
DIGITS == <<"0", "1", "2", "3", "4", "5", "6", "7", "8", "9">>

LOWER == <<"a", "b", "c", "d", "e", "f", "g", "h", "i", "j", "k", "l", "m",
           "n", "o", "p", "q", "r", "s", "t", "u", "v", "w", "x", "y", "z">>

UPPER == <<"A", "B", "C", "D", "E", "F", "G", "H", "I", "J", "K", "L", "M",
           "N", "O", "P", "Q", "R", "S", "T", "U", "V", "W", "X", "Y", "Z">>

Range(f) == {f[i] : i \in DOMAIN f}

AsciiDigit == Range(DIGITS)

\* characters Python's \d and int() take as decimal digits (category Nd)
IsDecimalCh(c) == c \in AsciiDigit \cup {"U+0663"}

DigitVal(c) ==
    IF c = "U+0663" THEN 3
    ELSE (CHOOSE i \in DOMAIN DIGITS : DIGITS[i] = c) - 1

\* str.isdigit() on one character: decimals and the other digit characters
IsDigitCh(c) == IsDecimalCh(c) \/ c = "U+00B2"

\* str.isdigit(): non-empty and every character a digit
IsDigit(s) == s # <<>> /\ \A i \in DOMAIN s : IsDigitCh(s[i])

UpperCh(c) ==
    IF c \in Range(LOWER)
    THEN UPPER[CHOOSE i \in DOMAIN LOWER : LOWER[i] = c]
    ELSE c

\* str.upper()
Upper(s) == [i \in DOMAIN s |-> UpperCh(s[i])]

AllDecimal(s) == s # <<>> /\ \A i \in DOMAIN s : IsDecimalCh(s[i])

RECURSIVE ToInt(_)
ToInt(s) ==
    IF s = <<>> THEN 0
    ELSE 10 * ToInt(SubSeq(s, 1, Len(s) - 1)) + DigitVal(s[Len(s)])

RECURSIVE ToDigits(_)
ToDigits(n) ==
    IF n < 10 THEN <<DIGITS[n + 1]>>
    ELSE ToDigits(n \div 10) \o <<DIGITS[(n % 10) + 1]>>

(***************************************************************************)
(* CONFIG (src/main.py:15-27).                                             *)
(***************************************************************************)
KEY_CM == <<"Y", "B", "J", "D", "1", "F", "R", "U", "Y", "4", "5", "T", "H", "J">>

API_KEY_MAP == [k \in {KEY_CM} |-> <<"C", "M">>]

HEADER_ROW == <<"timestamp", "phone", "email", "first name", "last name",
                "dob", "pan", "employment_type", "pincode", "income",
                "consent_datetime", "ip_address", "partner_id">>

(***************************************************************************)
(* The Lead schema (src/main.py:76-88): attribute names in declaration     *)
(* order, and the key each is read from and written under.                 *)
(***************************************************************************)
FIELDS == <<"phone", "email", "first_name", "last_name", "dob", "pan",
            "employment_type", "pincode", "income", "consent_datetime",
            "ip_address", "partner_id">>

Alias(f) ==
    CASE f = "first_name" -> "first name"
      [] f = "last_name" -> "last name"
      [] OTHER -> f

Optional(f) == f \in {"consent_datetime", "ip_address"}

PhoneLen == 10

PincodeLen == 6

(***************************************************************************)
(* Results of a field validation: the coerced value, or an error.          *)
(***************************************************************************)
Ok(v) == [ok |-> TRUE, v |-> v]

Err == [ok |-> FALSE, v |-> None]

\* a later check of a field runs only when the earlier ones passed
AndThen(r, next) == IF r.ok THEN next ELSE r

\* str(n) for an integer
IntToStr(n) == IF n < 0 THEN <<"-">> \o ToDigits(-n) ELSE ToDigits(n)

\* pydantic's validator of a `str` field: a string, or a number made one
StrValidator(v) ==
    CASE v.t = "str" -> Ok(v)
      [] v.t = "int" -> Ok(Str(IntToStr(v.n)))
      [] OTHER -> Err

\* int(s) for an optionally signed run of decimal digits
ParseInt(s) ==
    LET signed == s # <<>> /\ s[1] \in {"-", "+"}
        digits == IF signed THEN Tail(s) ELSE s
    IN  IF AllDecimal(digits)
        THEN Ok(Int_(IF signed /\ s[1] = "-" THEN -ToInt(digits) ELSE ToInt(digits)))
        ELSE Err

\* pydantic's validator of an `int` field (income: int)
IntValidator(v) ==
    CASE v.t = "int" -> Ok(v)
      [] v.t = "str" -> ParseInt(v.s)
      [] OTHER -> Err

\* Field(..., min_length=n, max_length=n)
ConstrLen(v, n) == IF Len(v.s) >= n /\ Len(v.s) <= n THEN Ok(v) ELSE Err

(***************************************************************************)
(* Calendar dates.                                                         *)
(***************************************************************************)
IsLeap(y) == (y % 4 = 0 /\ y % 100 # 0) \/ y % 400 = 0

DaysInMonth(y, m) ==
    CASE m \in {4, 6, 9, 11} -> 30
      [] m = 2 -> IF IsLeap(y) THEN 29 ELSE 28
      [] OTHER -> 31

\* datetime.date(y, m, d) does not raise
ValidDate(y, m, d) ==
    /\ y >= 1 /\ y <= 9999
    /\ m >= 1 /\ m <= 12
    /\ d >= 1 /\ d <= DaysInMonth(y, m)

NonZeroAscii == AsciiDigit \ {"0"}

\* the %m directive: 1[0-2]|0[1-9]|[1-9]
MonthTok(m) ==
    \/ Len(m) = 2 /\ m[1] = "1" /\ m[2] \in {"0", "1", "2"}
    \/ Len(m) = 2 /\ m[1] = "0" /\ m[2] \in NonZeroAscii
    \/ Len(m) = 1 /\ m[1] \in NonZeroAscii

\* the %d directive: 3[01]|[12]\d|0[1-9]|[1-9]| [1-9]
DayTok(d) ==
    \/ Len(d) = 2 /\ d[1] = "3" /\ d[2] \in {"0", "1"}
    \/ Len(d) = 2 /\ d[1] \in {"1", "2"} /\ IsDecimalCh(d[2])
    \/ Len(d) = 2 /\ d[1] = "0" /\ d[2] \in NonZeroAscii
    \/ Len(d) = 1 /\ d[1] \in NonZeroAscii
    \/ Len(d) = 2 /\ d[1] = " " /\ d[2] \in NonZeroAscii

DayVal(d) == IF d[1] = " " THEN ToInt(Tail(d)) ELSE ToInt(d)

\* datetime.strptime(s, "%Y-%m-%d") does not raise
StrptimeYMD(s) ==
    \E p \in {7, 8} :
        /\ Len(s) > p
        /\ AllDecimal(SubSeq(s, 1, 4))
        /\ s[5] = "-" /\ s[p] = "-"
        /\ MonthTok(SubSeq(s, 6, p - 1))
        /\ DayTok(SubSeq(s, p + 1, Len(s)))
        /\ ValidDate(ToInt(SubSeq(s, 1, 4)), ToInt(SubSeq(s, 6, p - 1)),
                     DayVal(SubSeq(s, p + 1, Len(s))))

\* a two-digit component of an ISO time, within lo..hi
TwoDigits(s, lo, hi) ==
    Len(s) = 2 /\ AllDecimal(s) /\ ToInt(s) >= lo /\ ToInt(s) <= hi

\* the time part HH[:MM[:SS]] of datetime.fromisoformat
IsoTime(ts) ==
    \/ TwoDigits(ts, 0, 23)
    \/ /\ Len(ts) = 5 /\ ts[3] = ":"
       /\ TwoDigits(SubSeq(ts, 1, 2), 0, 23) /\ TwoDigits(SubSeq(ts, 4, 5), 0, 59)
    \/ /\ Len(ts) = 8 /\ ts[3] = ":" /\ ts[6] = ":"
       /\ TwoDigits(SubSeq(ts, 1, 2), 0, 23) /\ TwoDigits(SubSeq(ts, 4, 5), 0, 59)
       /\ TwoDigits(SubSeq(ts, 7, 8), 0, 59)

\* datetime.fromisoformat(s) does not raise: YYYY-MM-DD[*HH[:MM[:SS]]]
FromIsoFormat(s) ==
    /\ Len(s) >= 10
    /\ AllDecimal(SubSeq(s, 1, 4)) /\ s[5] = "-"
    /\ AllDecimal(SubSeq(s, 6, 7)) /\ s[8] = "-"
    /\ AllDecimal(SubSeq(s, 9, 10))
    /\ ValidDate(ToInt(SubSeq(s, 1, 4)), ToInt(SubSeq(s, 6, 7)), ToInt(SubSeq(s, 9, 10)))
    /\ Len(s) > 11 => IsoTime(SubSeq(s, 12, Len(s)))

(***************************************************************************)
(* E-mail syntax (EmailStr): one "@", a non-empty local part and a dotted  *)
(* domain of non-empty labels, over letters, digits and ". - _ +".         *)
(***************************************************************************)
EmailCh == Range(LOWER) \cup Range(UPPER) \cup AsciiDigit \cup {".", "-", "_", "+"}

EmailStr(s) ==
    \E a \in DOMAIN s :
        /\ s[a] = "@"
        /\ \A i \in DOMAIN s : i # a => s[i] \in EmailCh
        /\ a > 1 /\ s[1] # "." /\ s[a - 1] # "."
        /\ a < Len(s) /\ s[a + 1] # "." /\ s[Len(s)] # "."
        /\ \E i \in (a + 1)..Len(s) : s[i] = "."
        /\ \A i \in 1..(Len(s) - 1) : ~(s[i] = "." /\ s[i + 1] = ".")
        /\ \A i \in (a + 1)..Len(s) : s[i] \notin {"_", "+"}

EmailValidator(v) == IF EmailStr(v.s) THEN Ok(v) ELSE Err

(***************************************************************************)
(* Field-level validators (src/main.py:91-124).                            *)
(***************************************************************************)
PhoneConstr(v) == ConstrLen(v, PhoneLen)

PincodeConstr(v) == ConstrLen(v, PincodeLen)

phone_is_digits(v) == IF ~IsDigit(v.s) THEN Err ELSE Ok(v)

dob_format(v) == IF StrptimeYMD(v.s) THEN Ok(v) ELSE Err

\* PAN_REGEX.match: ^[A-Z]{5}[0-9]{4}[A-Z]$ , where $ also matches before a
\* final newline
PAN_REGEX(s) ==
    /\ Len(s) = 10 \/ (Len(s) = 11 /\ s[11] = "LF")
    /\ \A i \in 1..5 : s[i] \in Range(UPPER)
    /\ \A i \in 6..9 : s[i] \in AsciiDigit
    /\ s[10] \in Range(UPPER)

pan_format(v) == IF ~PAN_REGEX(Upper(v.s)) THEN Err ELSE Ok(Str(Upper(v.s)))

SALARIED == <<"s", "a", "l", "a", "r", "i", "e", "d">>

SELF_EMPLOYED == <<"s", "e", "l", "f", "-", "e", "m", "p", "l", "o", "y", "e", "d">>

emp_enum(v) == IF v.s \notin {SALARIED, SELF_EMPLOYED} THEN Err ELSE Ok(v)

iso_dt(v) == IF Truthy(v) /\ ~FromIsoFormat(v.s) THEN Err ELSE Ok(v)

(***************************************************************************)
(* Validation of one field of the payload, and of the whole model: every   *)
(* field is validated and the errors are collected.                        *)
(***************************************************************************)
ValidateField(f, payload) ==
    LET key == Alias(f)
        present == key \in DOMAIN payload /\ payload[key].t # "none"
        s == StrValidator(payload[key])
        c == AndThen(s, IF f = "phone" THEN PhoneConstr(s.v) ELSE PincodeConstr(s.v))
    IN  IF ~present
        THEN (IF Optional(f) THEN Ok(None) ELSE Err)
        ELSE CASE f = "phone" -> AndThen(c, phone_is_digits(c.v))
               [] f = "email" -> AndThen(s, EmailValidator(s.v))
               [] f = "dob" -> AndThen(s, dob_format(s.v))
               [] f = "pan" -> AndThen(s, pan_format(s.v))
               [] f = "employment_type" -> AndThen(s, emp_enum(s.v))
               [] f = "pincode" -> c
               [] f = "income" -> IntValidator(payload[key])
               [] f = "consent_datetime" -> AndThen(s, iso_dt(s.v))
               [] OTHER -> s

NoLead == [f \in Range(FIELDS) |-> None]

RECURSIVE validate_model(_, _, _)
validate_model(payload, i, acc) ==
    IF i > Len(FIELDS) THEN acc
    ELSE LET f == FIELDS[i]
             r == ValidateField(f, payload)
         IN  validate_model(payload, i + 1,
                 IF r.ok
                 THEN [acc EXCEPT !.values[f] = r.v]
                 ELSE [acc EXCEPT !.errors = @ \cup {Alias(f)}])

\* Lead(payload): the Lead, or the set of the failing fields
Lead(payload) ==
    LET out == validate_model(payload, 1, [values |-> NoLead, errors |-> {}])
    IN  IF out.errors = {} THEN out ELSE [out EXCEPT !.values = NoLead]

(***************************************************************************)
(* The HTTP request: at most one API-key header (a name as the client      *)
(* wrote it, and a value) and a JSON object.                               *)
(***************************************************************************)
LowerCh(c) ==
    IF c \in Range(UPPER)
    THEN LOWER[CHOOSE i \in DOMAIN UPPER : UPPER[i] = c]
    ELSE c

\* str.lower(): header names are matched case-insensitively
Lower(s) == [i \in DOMAIN s |-> LowerCh(s[i])]

NoHeader == [name |-> <<>>, value |-> <<>>]

\* the name of the handler's parameter (src/main.py:133)
PARAM_NAME == <<"x", "_", "a", "p", "i", "_", "k", "e", "y">>

\* Header(None, convert_underscores=False)
convert_underscores == FALSE

\* mutant: the parameter declared with the default convert_underscores=True
HeaderAlias_Converted(param) ==
    [i \in DOMAIN param |-> IF param[i] = "_" THEN "-" ELSE param[i]]

\* the header a Header() parameter is read from: the parameter's name, with
\* "_" made "-" only when convert_underscores is set
HeaderAlias(param) ==
    IF convert_underscores
    THEN [i \in DOMAIN param |-> IF param[i] = "_" THEN "-" ELSE param[i]]
    ELSE param

\* request.headers.get(alias), None by default
HeaderParam(hdr) ==
    IF hdr # NoHeader /\ Lower(hdr.name) = Lower(HeaderAlias(PARAM_NAME))
    THEN Str(hdr.value)
    ELSE None

(***************************************************************************)
(* Responses.                                                              *)
(***************************************************************************)
HTTP_401_UNAUTHORIZED == 401

HTTP_400_BAD_REQUEST == 400

NoResp == [status |-> 0, success |-> FALSE, message |-> "", error |-> {}]

\* the framework's answer to a body that fails validation
Resp422(errors) ==
    [status |-> 422, success |-> FALSE, message |-> "", error |-> errors]

Resp401 ==
    [status |-> HTTP_401_UNAUTHORIZED, success |-> FALSE,
     message |-> "Unauthorised Access! API Key is required!", error |-> {}]

Resp400 ==
    [status |-> HTTP_400_BAD_REQUEST, success |-> FALSE,
     message |-> "Data Validation Failed!", error |-> {"partner_id"}]

Resp200 ==
    [status |-> 200, success |-> TRUE,
     message |-> "Lead created successfully", error |-> {}]

\* the framework's answer to an exception the handler does not catch
Resp500 ==
    [status |-> 500, success |-> FALSE, message |-> "", error |-> {}]

(***************************************************************************)
(* Building the row (src/main.py:157-158).                                 *)
(***************************************************************************)
\* body.dict(by_alias=...)
dict(lead, by_alias) ==
    LET Key(f) == IF by_alias THEN Alias(f) ELSE f
    IN  [k \in {Key(f) : f \in Range(FIELDS)} |->
            lead[CHOOSE f \in Range(FIELDS) : Key(f) = k]]

\* data.get(k, default)
DictGet(d, k, default) == IF k \in DOMAIN d THEN d[k] ELSE default

\* datetime.isoformat() of the clock reading
isoformat(now) == <<"T">> \o ToDigits(now)

\* mutant: the Lead dumped under its attribute names, not its aliases
BuildRowOf_ByName(lead, now) ==
    LET data == dict(lead, FALSE)
    IN  <<Str(isoformat(now))>> \o
        [i \in 1..(Len(HEADER_ROW) - 1) |-> DictGet(data, HEADER_ROW[i + 1], Str(<<>>))]

BuildRowOf(lead, now) ==
    LET data == dict(lead, TRUE)
    IN  <<Str(isoformat(now))>> \o
        [i \in 1..(Len(HEADER_ROW) - 1) |-> DictGet(data, HEADER_ROW[i + 1], Str(<<>>))]

(***************************************************************************)
(* Requests of the model.                                                  *)
(***************************************************************************)
Req == 1..MaxRequests

PHONE_OK == <<"9", "8", "7", "6", "5", "4", "3", "2", "1", "0">>

EMAIL_OK == <<"a", "@", "b", ".", "c">>

DOB_OK == <<"1", "9", "9", "0", "-", "0", "1", "-", "0", "1">>

PAN_LOWER == <<"a", "b", "c", "d", "e", "1", "2", "3", "4", "f">>

PINCODE_OK == <<"5", "6", "0", "0", "0", "1">>

CONSENT_OK == <<"2", "0", "2", "4", "-", "0", "1", "-", "0", "1">>

BasePayload ==
    [k \in {"phone", "email", "first name", "last name", "dob", "pan",
            "employment_type", "pincode", "income", "partner_id"} |->
        CASE k = "phone" -> Str(PHONE_OK)
          [] k = "email" -> Str(EMAIL_OK)
          [] k = "first name" -> Str(<<"A">>)
          [] k = "last name" -> Str(<<"B">>)
          [] k = "dob" -> Str(DOB_OK)
          [] k = "pan" -> Str(PAN_LOWER)
          [] k = "employment_type" -> Str(SALARIED)
          [] k = "pincode" -> Str(PINCODE_OK)
          [] k = "income" -> Int_(50000)
          [] OTHER -> Str(<<"C", "M">>)]

\* the payload with key k set to v
With(p, k, v) == [x \in DOMAIN p \cup {k} |-> IF x = k THEN v ELSE p[x]]

\* the payload without key k
Without(p, k) == [x \in DOMAIN p \ {k} |-> p[x]]

Payloads ==
    { BasePayload,
      With(With(With(BasePayload, "consent_datetime", Str(CONSENT_OK)),
                "ip_address", Str(<<"1", ".", "2">>)),
           "timestamp", Str(<<"T", "0">>)),
      With(BasePayload, "partner_id", Str(<<"X", "X">>)),
      With(BasePayload, "pincode", Str(<<"1", "2", "3", "4", "5">>)) }

HYPHEN_NAME == <<"X", "-", "A", "p", "i", "-", "K", "e", "y">>

UNDERSCORE_NAME == <<"X", "_", "A", "p", "i", "_", "K", "e", "y">>

Headers ==
    { NoHeader,
      [name |-> HYPHEN_NAME, value |-> KEY_CM],
      [name |-> UNDERSCORE_NAME, value |-> KEY_CM],
      [name |-> PARAM_NAME, value |-> Lower(KEY_CM)] }

\* every request of the model with what the framework makes of it
Resolved ==
    { [hdr |-> h, payload |-> p, out |-> Lead(p), key |-> HeaderParam(h)] :
        h \in Headers, p \in Payloads }

(***************************************************************************)
(* Startup (src/main.py:32-69): the worksheet with HEADER_ROW in row 1.    *)
(* A header cell holds the column's name as one token.                     *)
(***************************************************************************)
get_worksheet == << [i \in DOMAIN HEADER_ROW |-> Str(<<HEADER_ROW[i]>>)] >>

ValidatorIdle ==
    /\ vPc = "off"
    /\ vPayload = BasePayload
    /\ vOut = [values |-> NoLead, errors |-> {}]

Init ==
    /\ pc = [r \in Req |-> "idle"]
    /\ request = [r \in Req |-> [hdr |-> NoHeader, payload |-> BasePayload]]
    /\ body = [r \in Req |-> NoLead]
    /\ x_api_key = [r \in Req |-> None]
    /\ row = [r \in Req |-> <<>>]
    /\ resp = [r \in Req |-> NoResp]
    /\ calls = [r \in Req |-> 0]
    /\ sheet = get_worksheet
    /\ writer = <<0>>
    /\ clock = 0
    /\ ValidatorIdle

(***************************************************************************)
(* POST /vendor/submit-lead (src/main.py:130-161), one step per statement  *)
(* that other requests can interleave with.                                *)
(***************************************************************************)
\* the framework resolves the parameters: the body is parsed into a Lead
\* (422 when it fails) and the header parameter is read
Receive(r) ==
    /\ pc[r] = "idle"
    /\ \E q \in Resolved :
        /\ request' = [request EXCEPT ![r] = [hdr |-> q.hdr, payload |-> q.payload]]
        /\ IF q.out.errors # {}
           THEN /\ resp' = [resp EXCEPT ![r] = Resp422(q.out.errors)]
                /\ pc' = [pc EXCEPT ![r] = "done"]
                /\ UNCHANGED <<body, x_api_key>>
           ELSE /\ body' = [body EXCEPT ![r] = q.out.values]
                /\ x_api_key' = [x_api_key EXCEPT ![r] = q.key]
                /\ pc' = [pc EXCEPT ![r] = "auth"]
                /\ UNCHANGED resp
    /\ UNCHANGED <<row, calls, sheet, writer, clock, validatorVars>>

\* x_api_key in API_KEY_MAP
KeyKnown(k) == k.t = "str" /\ k.s \in DOMAIN API_KEY_MAP

\* mutant: the exception is built and not raised; the lookup of the next
\* statement then fails on the unknown key
Auth_NoRaise(r) ==
    /\ pc[r] = "auth"
    /\ IF ~KeyKnown(x_api_key[r])
       THEN /\ resp' = [resp EXCEPT ![r] = Resp500]
            /\ pc' = [pc EXCEPT ![r] = "done"]
       ELSE /\ pc' = [pc EXCEPT ![r] = "match"]
            /\ UNCHANGED resp
    /\ UNCHANGED <<request, body, x_api_key, row, calls, sheet, writer, clock,
                   validatorVars>>

\* mutant: the partner_id is checked against the registry's partners before
\* the key is looked up
Auth_PartnerFirst(r) ==
    /\ pc[r] = "auth"
    /\ IF body[r]["partner_id"] \notin { Str(API_KEY_MAP[k]) : k \in DOMAIN API_KEY_MAP }
       THEN /\ resp' = [resp EXCEPT ![r] = Resp400]
            /\ pc' = [pc EXCEPT ![r] = "done"]
       ELSE IF ~KeyKnown(x_api_key[r])
       THEN /\ resp' = [resp EXCEPT ![r] = Resp401]
            /\ pc' = [pc EXCEPT ![r] = "done"]
       ELSE /\ pc' = [pc EXCEPT ![r] = "match"]
            /\ UNCHANGED resp
    /\ UNCHANGED <<request, body, x_api_key, row, calls, sheet, writer, clock,
                   validatorVars>>

\* (1) API-key auth
Auth(r) ==
    /\ pc[r] = "auth"
    /\ IF ~KeyKnown(x_api_key[r])
       THEN /\ resp' = [resp EXCEPT ![r] = Resp401]
            /\ pc' = [pc EXCEPT ![r] = "done"]
       ELSE /\ pc' = [pc EXCEPT ![r] = "match"]
            /\ UNCHANGED resp
    /\ UNCHANGED <<request, body, x_api_key, row, calls, sheet, writer, clock,
                   validatorVars>>

\* mutant: the partner check is left out
PartnerMatch_NoCheck(r) ==
    /\ pc[r] = "match"
    /\ pc' = [pc EXCEPT ![r] = "build"]
    /\ UNCHANGED <<request, body, x_api_key, row, resp, calls, sheet, writer,
                   clock, validatorVars>>

\* (2) partner_id <-> key match
PartnerMatch(r) ==
    /\ pc[r] = "match"
    /\ IF Str(API_KEY_MAP[x_api_key[r].s]) # body[r]["partner_id"]
       THEN /\ resp' = [resp EXCEPT ![r] = Resp400]
            /\ pc' = [pc EXCEPT ![r] = "done"]
       ELSE /\ pc' = [pc EXCEPT ![r] = "build"]
            /\ UNCHANGED resp
    /\ UNCHANGED <<request, body, x_api_key, row, calls, sheet, writer, clock,
                   validatorVars>>

\* (3) the row, stamped with datetime.utcnow() as it is read here: a time
\* not before the reading made last (clock)
BuildRow(r) ==
    /\ pc[r] = "build"
    /\ \E now \in clock..MaxClock :
        /\ clock' = now
        /\ row' = [row EXCEPT ![r] = BuildRowOf(body[r], now)]
    /\ pc' = [pc EXCEPT ![r] = "append"]
    /\ UNCHANGED <<request, body, x_api_key, resp, calls, sheet, writer,
                   validatorVars>>

\* mutant: a row whose lead is already in the sheet is not written again
AppendRow_Dedup(r) ==
    /\ pc[r] = "append"
    /\ calls' = [calls EXCEPT ![r] = @ + 1]
    /\ IF \E i \in DOMAIN sheet :
            SubSeq(sheet[i], 2, Len(sheet[i])) = SubSeq(row[r], 2, Len(row[r]))
       THEN UNCHANGED <<sheet, writer>>
       ELSE /\ sheet' = Append(sheet, row[r])
            /\ writer' = Append(writer, r)
    /\ resp' = [resp EXCEPT ![r] = Resp200]
    /\ pc' = [pc EXCEPT ![r] = "done"]
    /\ UNCHANGED <<request, body, x_api_key, row, clock, validatorVars>>

\* ws.append_row(row) returns: the row is in the sheet, and the handler
\* returns its acknowledgement
AppendRow(r) ==
    /\ pc[r] = "append"
    /\ calls' = [calls EXCEPT ![r] = @ + 1]
    /\ sheet' = Append(sheet, row[r])
    /\ writer' = Append(writer, r)
    /\ resp' = [resp EXCEPT ![r] = Resp200]
    /\ pc' = [pc EXCEPT ![r] = "done"]
    /\ UNCHANGED <<request, body, x_api_key, row, clock, validatorVars>>

\* mutant: the row is written and then the failure is raised
AppendRaise_RowWritten(r) ==
    /\ pc[r] = "append"
    /\ calls' = [calls EXCEPT ![r] = @ + 1]
    /\ sheet' = Append(sheet, row[r])
    /\ writer' = Append(writer, r)
    /\ resp' = [resp EXCEPT ![r] = Resp500]
    /\ pc' = [pc EXCEPT ![r] = "done"]
    /\ UNCHANGED <<request, body, x_api_key, row, clock, validatorVars>>

\* ws.append_row(row) raises: nothing is written, the exception is not
\* caught
AppendRaise(r) ==
    /\ pc[r] = "append"
    /\ calls' = [calls EXCEPT ![r] = @ + 1]
    /\ resp' = [resp EXCEPT ![r] = Resp500]
    /\ pc' = [pc EXCEPT ![r] = "done"]
    /\ UNCHANGED <<request, body, x_api_key, row, sheet, writer, clock,
                   validatorVars>>

Next ==
    \/ \E r \in Req : Receive(r)
    \/ \E r \in Req : Auth(r)
    \/ \E r \in Req : PartnerMatch(r)
    \/ \E r \in Req : BuildRow(r)
    \/ \E r \in Req : AppendRow(r)
    \/ \E r \in Req : AppendRaise(r)

Spec == Init /\ [][Next]_vars

(***************************************************************************)
(* The validator alone: Lead(payload) applied to one payload drawn from  *)
(* the valid payload with up to two keys replaced or removed.              *)
(***************************************************************************)
Missing == [t |-> "missing", s |-> <<>>, n |-> 0]

Override(p, a) == IF a[2] = Missing THEN Without(p, a[1]) ELSE With(p, a[1], a[2])

Alternatives ==
    { <<"phone", Str(SubSeq(PHONE_OK, 1, 9))>>,
      <<"phone", Str(PHONE_OK \o <<"1">>)>>,
      <<"phone", Str(<<"9", "8", "7", "6", "5", "a", "3", "2", "1", "0">>)>>,
      <<"phone", Str(<<"9", "8", "7", "6", "5", "U+00B2", "3", "2", "1", "0">>)>>,
      <<"phone", Str(<<"9", "8", "7", "6", "5", "U+0663", "3", "2", "1", "0">>)>>,
      <<"phone", Str(<<>>)>>,
      <<"phone", None>>,
      <<"phone", Missing>>,
      <<"email", Str(<<"a", "b", ".", "c">>)>>,
      <<"first name", Missing>>,
      <<"dob", Str(<<"1", "9", "9", "0", "-", "0", "2", "-", "3", "0">>)>>,
      <<"dob", Str(<<"0", "1", "-", "0", "1", "-", "1", "9", "9", "0">>)>>,
      <<"dob", Str(<<"1", "9", "9", "0", "-", "1", "-", "1">>)>>,
      <<"pan", Str(Upper(PAN_LOWER))>>,
      <<"pan", Str(<<"a", "b", "c", "d", "e", "1", "2", "3", "4", "5">>)>>,
      <<"pan", Str(PAN_LOWER \o <<"LF">>)>>,
      <<"employment_type", Str(SELF_EMPLOYED)>>,
      <<"employment_type", Str(Upper(SALARIED))>>,
      <<"pincode", Str(<<"1", "2", "3", "4", "5">>)>>,
      <<"pincode", Str(<<"1", "2", "a", "4", "5", "6">>)>>,
      <<"pincode", Str(<<"1", "2", "3", "4", "5", "6", "7">>)>>,
      <<"income", Str(<<"5", "0">>)>>,
      <<"income", Str(<<"x">>)>>,
      <<"income", None>>,
      <<"consent_datetime", Str(CONSENT_OK)>>,
      <<"consent_datetime", Str(CONSENT_OK \o <<"T", "2", "3", ":", "5", "9">>)>>,
      <<"consent_datetime", Str(<<"x">>)>>,
      <<"consent_datetime", Str(<<>>)>>,
      <<"consent_datetime", None>>,
      <<"ip_address", Str(<<"1", ".", "2">>)>>,
      <<"partner_id", Str(<<"X", "X">>)>>,
      <<"partner_id", Missing>>,
      <<"timestamp", Str(<<"T", "9">>)>> }

PayloadsV == { Override(Override(BasePayload, a), b) : a, b \in Alternatives }

InitValidate ==
    /\ pc = [r \in Req |-> "idle"]
    /\ request = [r \in Req |-> [hdr |-> NoHeader, payload |-> BasePayload]]
    /\ body = [r \in Req |-> NoLead]
    /\ x_api_key = [r \in Req |-> None]
    /\ row = [r \in Req |-> <<>>]
    /\ resp = [r \in Req |-> NoResp]
    /\ calls = [r \in Req |-> 0]
    /\ sheet = get_worksheet
    /\ writer = <<0>>
    /\ clock = 0
    /\ vPc = "input"
    /\ vPayload \in PayloadsV
    /\ vOut = [values |-> NoLead, errors |-> {}]

Validate ==
    /\ vPc = "input"
    /\ vOut' = Lead(vPayload)
    /\ vPc' = "validated"
    /\ UNCHANGED <<vPayload, handlerVars>>

NextValidate == Validate

SpecValidate == InitValidate /\ [][NextValidate]_vars

(***************************************************************************)
(* Vocabulary of the properties.                                           *)
(***************************************************************************)
\* the payloads of the model whose body passes schema validation
ValidPayloads == { p \in Payloads : Lead(p).errors = {} }

Received(r) == pc[r] # "idle"

ValidBody(r) == Received(r) /\ request[r].payload \in ValidPayloads

\* the rows of the sheet that request r wrote
RowsOf(r) == { i \in DOMAIN writer : writer[i] = r }

\* the lead rows: every row below the header row
LeadRows == { i \in DOMAIN sheet : i > Len(get_worksheet) }

\* the registry's partner for the key differs from the body's partner_id
PartnerDiffers(r) ==
    /\ KeyKnown(x_api_key[r])
    /\ request[r].payload["partner_id"] # Str(API_KEY_MAP[x_api_key[r].s])

\* the request offers a registry key in a header of the given name
\* (names compared without regard to case)
OffersKeyIn(r, name) ==
    /\ Lower(request[r].hdr.name) = Lower(name)
    /\ request[r].hdr.value \in DOMAIN API_KEY_MAP

PartnerOfOfferedKey(r) ==
    request[r].payload["partner_id"] = Str(API_KEY_MAP[request[r].hdr.value])

\* the Lead attribute each column of the row is claimed to hold
ColumnField == <<"timestamp", "phone", "email", "first_name", "last_name",
                 "dob", "pan", "employment_type", "pincode", "income",
                 "consent_datetime", "ip_address", "partner_id">>

\* cells 2.. of a row, the part that does not depend on the clock
LeadCells(rw) == SubSeq(rw, 2, Len(rw))

\* the cells 2.. that the row of each valid payload of the model holds
ExpectedCells ==
    [p \in ValidPayloads |-> LeadCells(BuildRowOf(Lead(p).values, 0))]

(***************************************************************************)
(* C1: a request whose body is valid and whose API key is absent or not a  *)
(* key of the registry is answered 401, and the store's append is never    *)
(* called for it: no row of the sheet is its.                              *)
(***************************************************************************)
C1_UnknownKeyIs401 ==
    \A r \in Req :
        (ValidBody(r) /\ ~KeyKnown(x_api_key[r])) =>
            /\ calls[r] = 0
            /\ RowsOf(r) = {}
            /\ pc[r] \in {"auth", "done"}
            /\ pc[r] = "done" => resp[r] = Resp401

C1_Witness ==
    \E r1, r2 \in Req :
        /\ pc[r1] = "done" /\ request[r1].hdr = NoHeader
        /\ ValidBody(r1) /\ resp[r1].status = 401
        /\ pc[r2] = "done" /\ request[r2].hdr.value = Lower(KEY_CM)
        /\ ValidBody(r2) /\ resp[r2].status = 401
        /\ Len(sheet) = Len(get_worksheet)

(***************************************************************************)
(* C2: a request whose body is valid, whose key is in the registry and     *)
(* whose partner_id differs from the registry's partner for that key is    *)
(* answered 400 with an error naming partner_id, and appends no row.       *)
(***************************************************************************)
C2_PartnerMismatchIs400 ==
    \A r \in Req :
        (ValidBody(r) /\ PartnerDiffers(r)) =>
            /\ calls[r] = 0
            /\ RowsOf(r) = {}
            /\ pc[r] = "done" =>
                /\ resp[r].status = 400
                /\ "partner_id" \in resp[r].error
                /\ ~resp[r].success

C2_Witness ==
    \E r \in Req :
        /\ pc[r] = "done" /\ ValidBody(r) /\ PartnerDiffers(r)
        /\ resp[r] = Resp400
        /\ Len(sheet) = Len(get_worksheet)

(***************************************************************************)
(* C3: in every interleaving the number of lead rows in the sheet equals   *)
(* the number of requests answered with success; each such request wrote   *)
(* exactly one whole row and every other request wrote none.               *)
(***************************************************************************)
C3_RowsEqualSuccesses ==
    /\ Cardinality(LeadRows) = Cardinality({ r \in Req : resp[r].success })
    /\ \A r \in Req :
        Cardinality(RowsOf(r)) = IF resp[r].success THEN 1 ELSE 0
    /\ \A i \in LeadRows : Len(sheet[i]) = Len(HEADER_ROW)

C3_Witness ==
    \E r1, r2 \in Req :
        /\ resp[r1] = Resp200
        /\ resp[r2].status = 500
        /\ Cardinality(LeadRows) = 1

(***************************************************************************)
(* C4 as stated: a request carrying a registry key in the header named     *)
(* X-Api-Key, with a valid body and the key's partner_id, is answered 200  *)
(* with the success body, unless the store's append fails.                 *)
(***************************************************************************)
C4_HyphenHeaderAccepted ==
    \A r \in Req :
        ( /\ pc[r] = "done" /\ ValidBody(r)
          /\ OffersKeyIn(r, HYPHEN_NAME) /\ PartnerOfOfferedKey(r)
          /\ resp[r].status # 500 ) =>
            resp[r] = Resp200

(***************************************************************************)
(* C4 as amended: the same, for a key carried in the header named          *)
(* x_api_key (underscores, the name matched without regard to case).       *)
(***************************************************************************)
C4_UnderscoreHeaderAccepted ==
    \A r \in Req :
        ( /\ Received(r) /\ ValidBody(r)
          /\ OffersKeyIn(r, PARAM_NAME) /\ PartnerOfOfferedKey(r) ) =>
            /\ pc[r] = "done" => (resp[r].status # 500 => resp[r] = Resp200)
            /\ x_api_key[r] = Str(request[r].hdr.value)

C4_Witness ==
    \E r \in Req :
        /\ pc[r] = "done" /\ ValidBody(r)
        /\ request[r].hdr.name = UNDERSCORE_NAME
        /\ OffersKeyIn(r, PARAM_NAME) /\ PartnerOfOfferedKey(r)
        /\ resp[r] = Resp200

(***************************************************************************)
(* C5: the row of an accepted request has one cell per column of           *)
(* HEADER_ROW; cell i >= 2 holds the validated Lead's value of the         *)
(* attribute of column i; the first cell is the server's clock as read     *)
(* when the row is built, whatever the body says under "timestamp"; and    *)
(* the row that is persisted is the row that was built.                    *)
(***************************************************************************)
C5_RowShape(rw, lead) ==
    /\ Len(rw) = Len(HEADER_ROW)
    /\ \A i \in 2..Len(HEADER_ROW) : rw[i] = lead[ColumnField[i]]

C5_RowInHeaderOrder ==
    /\ [](\A i \in LeadRows :
            /\ C5_RowShape(sheet[i], body[writer[i]])
            /\ sheet[i] = row[writer[i]])
    /\ [][\A r \in Req :
            (pc[r] = "build" /\ pc'[r] # "build") =>
                /\ C5_RowShape(row'[r], body[r])
                /\ row'[r][1] = Str(isoformat(clock'))]_vars

C5_Witness ==
    \E r \in Req :
        /\ resp[r] = Resp200
        /\ "timestamp" \in DOMAIN request[r].payload
        /\ clock > 0
        /\ \E i \in LeadRows :
            /\ writer[i] = r
            /\ sheet[i][1] = Str(isoformat(clock))
            /\ sheet[i][7] = Str(Upper(PAN_LOWER))

(***************************************************************************)
(* C6 as stated: in the row of an accepted request, the cell of an         *)
(* optional field (consent_datetime, ip_address) that the body leaves      *)
(* unset is the empty string.                                              *)
(***************************************************************************)
C6_UnsetOptionalIsEmptyString ==
    \A i \in LeadRows :
        \A c \in DOMAIN HEADER_ROW :
            ( /\ HEADER_ROW[c] \in {"consent_datetime", "ip_address"}
              /\ HEADER_ROW[c] \notin DOMAIN request[writer[i]].payload ) =>
                sheet[i][c] = Str(<<>>)

(***************************************************************************)
(* C9 as stated: every submission of a valid Lead with a registry key and  *)
(* the key's partner_id returns success.                                   *)
(***************************************************************************)
Authorized(r) ==
    /\ ValidBody(r) /\ KeyKnown(x_api_key[r])
    /\ body[r]["partner_id"] = Str(API_KEY_MAP[x_api_key[r].s])

C9_EverySubmissionSucceeds ==
    \A r \in Req : (pc[r] = "done" /\ Authorized(r)) => resp[r] = Resp200

(***************************************************************************)
(* C9 as amended: there is no duplicate detection.  For every valid Lead,  *)
(* the submissions of it (registry key, matching partner_id) whose store   *)
(* append did not fail all returned success, and the sheet holds one row   *)
(* of that Lead for each of them: n submissions, n rows.                   *)
(***************************************************************************)
C9_NoDedup ==
    \A p \in ValidPayloads :
        LET served == { r \in Req : /\ pc[r] = "done" /\ Authorized(r)
                                    /\ request[r].payload = p
                                    /\ resp[r].status # 500 }
        IN  /\ \A r \in served : resp[r] = Resp200
            /\ Cardinality({ i \in LeadRows :
                    /\ request[writer[i]].payload = p
                    /\ LeadCells(sheet[i]) = ExpectedCells[p] })
                 = Cardinality(served)

C9_Witness ==
    \E r1, r2 \in Req :
        /\ r1 # r2
        /\ request[r1].payload = request[r2].payload
        /\ resp[r1] = Resp200 /\ resp[r2] = Resp200
        /\ \E i, j \in LeadRows :
            /\ i # j
            /\ LeadCells(sheet[i]) = LeadCells(sheet[j])
            /\ sheet[i][1] = sheet[j][1]

(***************************************************************************)
(* C10: the checks run in the order schema validation, key lookup, partner *)
(* match, append, and the first that fails decides: an invalid body is 422 *)
(* whatever the key; a valid body with an unknown key is 401 even when its *)
(* partner_id matches no partner; 400 is only returned for a known key;    *)
(* the append is only attempted once all three have passed.                *)
(***************************************************************************)
C10_FirstFailureDecides ==
    \A r \in Req :
        /\ (Received(r) /\ ~ValidBody(r)) =>
                pc[r] = "done" /\ resp[r].status = 422 /\ resp[r].error # {}
        /\ (pc[r] = "done" /\ ValidBody(r) /\ ~KeyKnown(x_api_key[r])) =>
                resp[r].status = 401
        /\ resp[r].status = 400 => (ValidBody(r) /\ KeyKnown(x_api_key[r]))
        /\ (calls[r] > 0 \/ pc[r] \in {"build", "append"}) => Authorized(r)
        /\ resp[r].status \in {200, 500} => calls[r] = 1

C10_Witness ==
    \E r1, r2 \in Req :
        /\ pc[r1] = "done" /\ ~ValidBody(r1)
        /\ OffersKeyIn(r1, PARAM_NAME) /\ resp[r1].status = 422
        /\ pc[r2] = "done" /\ ValidBody(r2) /\ resp[r2].status = 401
        /\ request[r2].payload["partner_id"] = Str(<<"X", "X">>)

(***************************************************************************)
(* The field rules as the specification's table states them, for the keys  *)
(* where they are stricter than the validators: phone is exactly 10 and    *)
(* pincode exactly 6 characters, all of them decimal digits 0-9.  For      *)
(* every other key the rule is the validator's own check.                  *)
(***************************************************************************)
AsciiDigits(p, k, n) ==
    /\ k \in DOMAIN p
    /\ p[k].t = "str"
    /\ Len(p[k].s) = n
    /\ \A i \in DOMAIN p[k].s : p[k].s[i] \in AsciiDigit

RuleViolated(f, p) ==
    CASE f = "phone" -> ~AsciiDigits(p, "phone", PhoneLen)
      [] f = "pincode" -> ~AsciiDigits(p, "pincode", PincodeLen)
      [] OTHER -> ~ValidateField(f, p).ok

(***************************************************************************)
(* C7 as stated: the fields reported by a validation are exactly the       *)
(* fields whose rule the payload violates.                                 *)
(***************************************************************************)
C7_ReportedEqualsViolated ==
    vPc = "validated" =>
        vOut.errors = { Alias(f) : f \in { g \in Range(FIELDS) : RuleViolated(g, vPayload) } }

(***************************************************************************)
(* Validation does not stop at the first failing field: the fields         *)
(* reported are all the fields whose own validator fails.                  *)
(***************************************************************************)
ErrorsAreCollected ==
    vPc = "validated" =>
        vOut.errors =
            { Alias(f) : f \in { g \in Range(FIELDS) : ~ValidateField(g, vPayload).ok } }

(***************************************************************************)
(* C8 as stated: validation reports phone for every payload whose phone is *)
(* not exactly 10 characters that are all decimal digits 0-9; only such    *)
(* strings are accepted as phone.                                          *)
(***************************************************************************)
C8_PhoneIsTenDecimalDigits ==
    vPc = "validated" =>
        (~AsciiDigits(vPayload, "phone", PhoneLen) => "phone" \in vOut.errors)

====
